---- MODULE Spec2Model ----
(***************************************************************************)
(* A model of FederatedWorker (src/workers/federated_client.py): the       *)
(* websocket server worker of AsyncPySyft.                                 *)
(*                                                                         *)
(* Five next-state relations share the state:                              *)
(*   Spec / FairSpec   the connection pumps: _handler, _consumer_handler,   *)
(*                     _producer_handler and _recv_msg, over the one        *)
(*                     broadcast_queue the worker object owns;              *)
(*   SpecRegistry      add_dataset, remove_dataset, add_model and           *)
(*                     remove_model called on the worker object, one call   *)
(*                     after the other;                                     *)
(*   SpecConfig        set_train_config called on the worker object;        *)
(*   SpecFit           fit called on a worker that holds datasets, models,  *)
(*                     plans and a train configuration;                     *)
(*   SpecWire          one payload taken through the text framing of        *)
(*                     _producer_handler, out and back in.                  *)
(*                                                                         *)
(* Every `await` of the source is a scheduling point: the event loop may   *)
(* run any other runnable task there.  asyncio.Queue.get blocks while the  *)
(* queue is empty; which of several blocked getters obtains the next item  *)
(* is left to the scheduler.                                               *)
(***************************************************************************)
EXTENDS Integers, Sequences, FiniteSets, TLC

\* ---------------------------------------------------------------- bounds
\* How many connections the server accepts in a run.
NumConns == 2
\* How many request frames the clients send, all connections together.
MaxFrames == 2

\* The largest len(dataset) of the fit specification.
MaxSamples == 5
\* The largest batch_size and the largest max_nr_batches.
MaxBatch == 2
\* The largest number of parameter tensors of a model.
MaxParams == 2
\* The largest number of bytes of a payload on the wire.
MaxPayload == 2

Conns == 1..NumConns

\* ------------------------------------------------------------ value domains
DatasetKeys == {"d1", "d2"}
ModelKeys == {"m1", "m2"}
Values == {"v1", "v2"}
Absent == "absent"

\* The keys the remote clients of the pump specification name.
PumpKeys == {"d1"}

\* Exception classes.  _recv_msg catches exactly the two Permitted ones.
NoError == "none"
Permitted == {"GetNotPermittedError", "ResponseSignatureError"}
DecodeError == "binascii.Error"

\* The attributes set_train_config assigns, in the order it assigns them.
FieldOrder ==
  <<"lr", "plan_id", "model_id", "model_param_id", "batch_size", "max_nr_batches">>
Fields == {FieldOrder[i] : i \in DOMAIN FieldOrder}
CfgVals == {"a", "b"}
Unset == "unset"
Missing == "missing"

VARIABLES
  conn,             \* conn[c]: the pump of connection c: "IDLE", "ACTIVE", "CLOSED"
  peer,             \* peer[c]: the remote end of c is still open
  consumer,         \* consumer[c]: the receive task of c
  producer,         \* producer[c]: the processing task of c
  outbox,           \* outbox[c]: `response`, held by producer c across `await send`
  broadcast_queue,  \* self.broadcast_queue
  datasets,         \* self.datasets
  models,           \* self.models
  train_config,     \* self.lr, self.plan_id, ... as one record
  dispatched,       \* history: every request handed to _recv_msg, in order
  written,          \* history: every response frame written to a socket, in order
  nframes,          \* how many request frames were received so far
  call,             \* the last direct call on the worker object and what it raised
  objects,          \* self._objects: the object store of the base worker, by id
  params,           \* params[m]: the parameter tensors of model object m, in order
  samples,          \* samples[d]: len(d) of dataset object d
  round,            \* the last call of fit: its argument, what it met, what it did
  wire              \* one payload on its way through the text framing

vars == <<conn, peer, consumer, producer, outbox, broadcast_queue, datasets, models,
          train_config, dispatched, written, nframes, call, objects, params, samples,
          round, wire>>

pumpVars == <<conn, peer, consumer, producer, outbox, broadcast_queue, dispatched,
              written, nframes>>

trainVars == <<objects, params, samples, round>>

NoResponse == [id |-> 0, origin |-> 0, payload |-> "none"]
NoCall == [op |-> "none", key |-> "-", val |-> "-",
           kwargs |-> [f \in Fields |-> Missing], raised |-> NoError]

\* ------------------------------------------------------------- registries

\* add_dataset storing unconditionally (the membership test left out).
add_dataset_overwrite(reg, dataset, key) ==
  [raised |-> NoError, reg |-> [reg EXCEPT ![key] = dataset]]

\* add_dataset passing over a present key instead of raising.
add_dataset_silent(reg, dataset, key) ==
  IF reg[key] = Absent
    THEN [raised |-> NoError, reg |-> [reg EXCEPT ![key] = dataset]]
    ELSE [raised |-> NoError, reg |-> reg]

\* add_dataset(self, dataset, key)
add_dataset(reg, dataset, key) ==
  IF reg[key] = Absent
    THEN [raised |-> NoError, reg |-> [reg EXCEPT ![key] = dataset]]
    ELSE [raised |-> "ValueError", reg |-> reg]

\* remove_dataset(self, key)
remove_dataset(reg, key) ==
  IF reg[key] # Absent
    THEN [raised |-> NoError, reg |-> [reg EXCEPT ![key] = Absent]]
    ELSE [raised |-> NoError, reg |-> reg]

\* add_model(self, model, key)
add_model(reg, model, key) ==
  IF reg[key] = Absent
    THEN [raised |-> NoError, reg |-> [reg EXCEPT ![key] = model]]
    ELSE [raised |-> "ValueError", reg |-> reg]

\* remove_model deleting without the membership test: `del` of an absent key
\* raises KeyError.
remove_model_unchecked(reg, key) ==
  IF reg[key] # Absent
    THEN [raised |-> NoError, reg |-> [reg EXCEPT ![key] = Absent]]
    ELSE [raised |-> "KeyError", reg |-> reg]

\* remove_model(self, key)
remove_model(reg, key) ==
  IF reg[key] # Absent
    THEN [raised |-> NoError, reg |-> [reg EXCEPT ![key] = Absent]]
    ELSE [raised |-> NoError, reg |-> reg]

\* ------------------------------------------------------------ train config

\* set_train_config assigns self.<field> = kwargs[<field>] field by field, in
\* FieldOrder; kwargs[<field>] of a key that is not there raises KeyError and
\* ends the method, with the assignments made so far in place.
RECURSIVE AssignFrom(_, _, _)
AssignFrom(cfg, kwargs, i) ==
  IF i > Len(FieldOrder)
    THEN [raised |-> NoError, cfg |-> cfg]
    ELSE IF kwargs[FieldOrder[i]] = Missing
      THEN [raised |-> "KeyError", cfg |-> cfg]
      ELSE AssignFrom([cfg EXCEPT ![FieldOrder[i]] = kwargs[FieldOrder[i]]], kwargs, i + 1)

set_train_config(cfg, kwargs) == AssignFrom(cfg, kwargs, 1)

\* The keyword arguments of the calls: any subset of the six names, the
\* values of one call carrying the same token.
KwargsInputs ==
  {[f \in Fields |-> IF f \in S THEN v ELSE Missing] : S \in SUBSET Fields, v \in CfgVals}

\* ----------------------------------------------------- objects of a round

\* The ids under which the object store holds a training plan, and the plans:
\* "sgd" computes a step, "raises" fails when it is invoked.
PlanIds == {"plan1", "plan2"}
InstalledPlans == [id \in PlanIds |-> IF id = "plan1" THEN "sgd" ELSE "raises"]

\* The worker object as fit reads it.
Self ==
  [datasets |-> datasets, models |-> models, cfg |-> train_config,
   objects |-> objects, params |-> params, samples |-> samples]

\* No call of fit yet.
NoRound ==
  [key |-> "-", raised |-> NoError, steps |-> <<>>, losses |-> <<>>,
   accuracies |-> <<>>, local_params |-> <<>>, difference |-> <<>>, pre |-> Self]

NoWire == [stage |-> "none", payload |-> <<>>, message |-> <<>>, decoded |-> <<>>,
           raised |-> NoError]

\* ------------------------------------------------------------------- Init

Init ==
  /\ conn = [c \in Conns |-> "IDLE"]
  /\ peer = [c \in Conns |-> FALSE]
  /\ consumer = [c \in Conns |-> "none"]
  /\ producer = [c \in Conns |-> "none"]
  /\ outbox = [c \in Conns |-> NoResponse]
  /\ broadcast_queue = <<>>
  /\ datasets = [k \in DatasetKeys |-> Absent]
  /\ models = [k \in ModelKeys |-> Absent]
  /\ train_config = [f \in Fields |-> Unset]
  /\ dispatched = <<>>
  /\ written = <<>>
  /\ nframes = 0
  /\ call = NoCall
  /\ objects = InstalledPlans
  /\ params = [m \in Values |-> <<>>]
  /\ samples = [d \in Values |-> 0]
  /\ round = NoRound
  /\ wire = NoWire

\* ------------------------------------------------------------- the frames

\* What a client can put in a request frame: the hex text of a serialized
\* command, or text that is no hex string.  A command either calls a method of
\* the worker, or is one whose handling inside recv_msg raises the exception
\* class it names.
Commands ==
  [op : {"add_dataset"}, key : PumpKeys, val : Values]
    \cup [op : {"remove_dataset"}, key : PumpKeys, val : {"-"}]
    \cup [op : {"raise"}, key : {"-"}, val : Permitted \cup {"RuntimeError"}]

NoCommand == [op |-> "none", key |-> "-", val |-> "-"]

FrameBodies ==
  [hex : {TRUE}, cmd : Commands] \cup [hex : {FALSE}, cmd : {NoCommand}]

\* binascii.unhexlify(message[2:-1])
unhexlify(frame) ==
  IF frame.hex
    THEN [raised |-> NoError, cmd |-> frame.cmd]
    ELSE [raised |-> DecodeError, cmd |-> NoCommand]

\* self.recv_msg(message): the base worker routes the command to the method
\* it names.
recv_msg(cmd, reg) ==
  CASE cmd.op = "add_dataset" ->
         LET r == add_dataset(reg, cmd.val, cmd.key)
         IN  [raised |-> r.raised, reg |-> r.reg, payload |-> "result"]
    [] cmd.op = "remove_dataset" ->
         LET r == remove_dataset(reg, cmd.key)
         IN  [raised |-> r.raised, reg |-> r.reg, payload |-> "result"]
    [] OTHER -> [raised |-> cmd.val, reg |-> reg, payload |-> "result"]

\* _recv_msg with `except Exception`: every failure is serialized.
recv_msg_catch_all(cmd, reg) ==
  LET r == recv_msg(cmd, reg)
  IN  IF r.raised # NoError
        THEN [raised |-> NoError, reg |-> r.reg, payload |-> r.raised]
        ELSE r

\* _recv_msg without its try/except: every failure propagates.
recv_msg_uncaught(cmd, reg) == recv_msg(cmd, reg)

\* _recv_msg: the two permitted classes are caught and serialized.
guarded_recv_msg(cmd, reg) ==
  LET r == recv_msg(cmd, reg)
  IN  IF r.raised \in Permitted
        THEN [raised |-> NoError, reg |-> r.reg, payload |-> r.raised]
        ELSE r

\* One pass of the body of _producer_handler's loop, from the item the queue
\* returned to the response that is ready to send.
process(frame, reg) ==
  LET d == unhexlify(frame)
  IN  IF d.raised # NoError
        THEN [raised |-> d.raised, reg |-> reg, payload |-> "none"]
        ELSE LET r == guarded_recv_msg(d.cmd, reg)
             IN  IF r.raised # NoError
                   THEN [raised |-> r.raised, reg |-> r.reg, payload |-> "none"]
                   ELSE r

\* ------------------------------------------------------------- the pumps

\* websockets.serve calls _handler for a new connection: both tasks start.
\* Connections are numbered in the order the server accepts them.
Connect(c) ==
  /\ conn[c] = "IDLE"
  /\ \A b \in Conns : b < c => conn[b] # "IDLE"
  /\ conn' = [conn EXCEPT ![c] = "ACTIVE"]
  /\ peer' = [peer EXCEPT ![c] = TRUE]
  /\ consumer' = [consumer EXCEPT ![c] = "recv"]
  /\ producer' = [producer EXCEPT ![c] = "get"]
  /\ UNCHANGED <<outbox, broadcast_queue, datasets, models, train_config,
                 dispatched, written, nframes, call,
                 trainVars, wire>>

\* _consumer_handler: msg = await websocket.recv(); await queue.put(msg)
Recv(c, body) ==
  /\ consumer[c] = "recv"
  /\ peer[c]
  /\ nframes < MaxFrames
  /\ nframes' = nframes + 1
  /\ broadcast_queue' =
       Append(broadcast_queue,
              [id |-> nframes + 1, origin |-> c, hex |-> body.hex, cmd |-> body.cmd])
  /\ UNCHANGED <<conn, peer, consumer, producer, outbox, datasets, models,
                 train_config, dispatched, written, call,
                 trainVars, wire>>

\* The remote end closes the connection.
PeerClose(c) ==
  /\ conn[c] = "ACTIVE"
  /\ peer[c]
  /\ peer' = [peer EXCEPT ![c] = FALSE]
  /\ UNCHANGED <<conn, consumer, producer, outbox, broadcast_queue, datasets, models,
                 train_config, dispatched, written, nframes, call,
                 trainVars, wire>>

\* _consumer_handler: recv raises ConnectionClosed; the except clause calls
\* self._consumer_handler(websocket) without awaiting it, which only builds a
\* coroutine object, and the handler returns: the receive task is done.
ConsumerClosed(c) ==
  /\ consumer[c] = "recv"
  /\ ~peer[c]
  /\ consumer' = [consumer EXCEPT ![c] = "done"]
  /\ UNCHANGED <<conn, peer, producer, outbox, broadcast_queue, datasets, models,
                 train_config, dispatched, written, nframes, call,
                 trainVars, wire>>

\* _producer_handler from `await self.broadcast_queue.get()` to
\* `await websocket.send(response)`: nothing in between awaits.
Dispatch(c) ==
  /\ producer[c] = "get"
  /\ broadcast_queue # <<>>
  /\ LET frame == Head(broadcast_queue)
         r == process(frame, datasets)
     IN  /\ broadcast_queue' = Tail(broadcast_queue)
         /\ datasets' = r.reg
         /\ dispatched' =
              Append(dispatched,
                     [id |-> frame.id, origin |-> frame.origin, by |-> c,
                      cmd |-> frame.cmd, raised |-> r.raised, payload |-> r.payload,
                      pre |-> datasets, waiting |-> Len(broadcast_queue) - 1])
         /\ IF r.raised # NoError
              THEN /\ producer' = [producer EXCEPT ![c] = "raised"]
                   /\ outbox' = outbox
              ELSE /\ producer' = [producer EXCEPT ![c] = "send"]
                   /\ outbox' = [outbox EXCEPT ![c] =
                                   [id |-> frame.id, origin |-> frame.origin,
                                    payload |-> r.payload]]
  /\ UNCHANGED <<conn, peer, consumer, models, train_config, written, nframes, call,
                 trainVars, wire>>

\* await websocket.send(response) on an open connection.
Send(c) ==
  /\ producer[c] = "send"
  /\ peer[c]
  /\ written' = Append(written, [id |-> outbox[c].id, origin |-> outbox[c].origin,
                                 to |-> c, payload |-> outbox[c].payload])
  /\ producer' = [producer EXCEPT ![c] = "get"]
  /\ outbox' = [outbox EXCEPT ![c] = NoResponse]
  /\ UNCHANGED <<conn, peer, consumer, broadcast_queue, datasets, models,
                 train_config, dispatched, nframes, call,
                 trainVars, wire>>

\* await websocket.send(response) after the remote end closed: ConnectionClosed
\* leaves _producer_handler.
SendClosed(c) ==
  /\ producer[c] = "send"
  /\ ~peer[c]
  /\ producer' = [producer EXCEPT ![c] = "send_raised"]
  /\ outbox' = [outbox EXCEPT ![c] = NoResponse]
  /\ UNCHANGED <<conn, peer, consumer, broadcast_queue, datasets, models,
                 train_config, dispatched, written, nframes, call,
                 trainVars, wire>>

\* _handler that returns without cancelling the pending task.
HandlerFinishNoCancel(c) ==
  /\ conn[c] = "ACTIVE"
  /\ consumer[c] = "done" \/ producer[c] \in {"raised", "send_raised"}
  /\ conn' = [conn EXCEPT ![c] = "CLOSED"]
  /\ UNCHANGED <<peer, consumer, producer, outbox, broadcast_queue, datasets, models,
                 train_config, dispatched, written, nframes, call,
                 trainVars, wire>>

Ended(c) == consumer[c] = "done" \/ producer[c] \in {"raised", "send_raised"}

\* _handler after asyncio.wait(..., FIRST_COMPLETED) returns: every pending
\* task is cancelled, the handler returns and the server closes the socket.
HandlerFinish(c) ==
  /\ conn[c] = "ACTIVE"
  /\ Ended(c)
  /\ conn' = [conn EXCEPT ![c] = "CLOSED"]
  /\ consumer' = [consumer EXCEPT ![c] = IF @ = "recv" THEN "cancelled" ELSE @]
  /\ producer' = [producer EXCEPT ![c] = IF @ \in {"get", "send"} THEN "cancelled" ELSE @]
  /\ outbox' = [outbox EXCEPT ![c] = NoResponse]
  /\ peer' = [peer EXCEPT ![c] = FALSE]
  /\ UNCHANGED <<broadcast_queue, datasets, models, train_config, dispatched,
                 written, nframes, call,
                 trainVars, wire>>

Next ==
  \/ \E c \in Conns : Connect(c)
  \/ \E c \in Conns, body \in FrameBodies : Recv(c, body)
  \/ \E c \in Conns : PeerClose(c)
  \/ \E c \in Conns : ConsumerClosed(c)
  \/ \E c \in Conns : Dispatch(c)
  \/ \E c \in Conns : Send(c)
  \/ \E c \in Conns : SendClosed(c)
  \/ \E c \in Conns : HandlerFinish(c)

Spec == Init /\ [][Next]_vars

\* The event loop runs every callback it has scheduled: a handler whose wait
\* has returned does run.
FairSpec == Spec /\ \A c \in Conns : WF_vars(HandlerFinish(c))

\* ------------------------------------------- direct calls on the worker

CallAddDataset(key, dataset) ==
  LET r == add_dataset(datasets, dataset, key)
  IN  /\ datasets' = r.reg
      /\ call' = [NoCall EXCEPT !.op = "add_dataset", !.key = key, !.val = dataset,
                                !.raised = r.raised]
      /\ UNCHANGED <<models, train_config, pumpVars, trainVars, wire>>

CallRemoveDataset(key) ==
  LET r == remove_dataset(datasets, key)
  IN  /\ datasets' = r.reg
      /\ call' = [NoCall EXCEPT !.op = "remove_dataset", !.key = key, !.raised = r.raised]
      /\ UNCHANGED <<models, train_config, pumpVars, trainVars, wire>>

CallAddModel(key, model) ==
  LET r == add_model(models, model, key)
  IN  /\ models' = r.reg
      /\ call' = [NoCall EXCEPT !.op = "add_model", !.key = key, !.val = model,
                                !.raised = r.raised]
      /\ UNCHANGED <<datasets, train_config, pumpVars, trainVars, wire>>

CallRemoveModel(key) ==
  LET r == remove_model(models, key)
  IN  /\ models' = r.reg
      /\ call' = [NoCall EXCEPT !.op = "remove_model", !.key = key, !.raised = r.raised]
      /\ UNCHANGED <<datasets, train_config, pumpVars, trainVars, wire>>

CallSetTrainConfig(kwargs) ==
  LET r == set_train_config(train_config, kwargs)
  IN  /\ train_config' = r.cfg
      /\ call' = [NoCall EXCEPT !.op = "set_train_config", !.kwargs = kwargs,
                                !.raised = r.raised]
      /\ UNCHANGED <<datasets, models, pumpVars, trainVars, wire>>

NextRegistry ==
  \/ \E key \in DatasetKeys, dataset \in Values : CallAddDataset(key, dataset)
  \/ \E key \in DatasetKeys : CallRemoveDataset(key)
  \/ \E key \in ModelKeys, model \in Values : CallAddModel(key, model)
  \/ \E key \in ModelKeys : CallRemoveModel(key)

SpecRegistry == Init /\ [][NextRegistry]_vars

NextConfig == \E kwargs \in KwargsInputs : CallSetTrainConfig(kwargs)

SpecConfig == Init /\ [][NextConfig]_vars

\* ------------------------------------------------------- the training round

\* The attributes of the train configuration hold Python numbers; the model
\* writes a number as its decimal numeral, so that a field is either a numeral
\* or Unset.
Numeral(n) == ToString(n)
Number(s) == CHOOSE n \in 0..(MaxSamples + MaxBatch) : Numeral(n) = s

RECURSIVE SumSeq(_)
SumSeq(q) == IF q = <<>> THEN 0 ELSE Head(q) + SumSeq(Tail(q))

\* SequentialSampler(range(len(dataset))): the positions of the dataset in order.
SequentialSampler(n) == [i \in 1..n |-> i]

\* The batch sampler of torch's DataLoader: it appends the sampler's indices
\* to a batch, yields the batch when it holds batch_size of them, and at the
\* end yields a shorter last batch unless drop_last is set.
RECURSIVE BatchSampler(_, _, _, _, _)
BatchSampler(sampler, batch_size, drop_last, batch, out) ==
  IF sampler = <<>>
    THEN IF Len(batch) > 0 /\ ~drop_last THEN Append(out, batch) ELSE out
    ELSE LET b == Append(batch, Head(sampler))
         IN  IF Len(b) = batch_size
               THEN BatchSampler(Tail(sampler), batch_size, drop_last, <<>>, Append(out, b))
               ELSE BatchSampler(Tail(sampler), batch_size, drop_last, b, out)

\* A data loader that keeps the shorter last batch (drop_last=False).
create_data_loader_keep_last(n, batch_size) ==
  BatchSampler(SequentialSampler(n), batch_size, FALSE, <<>>, <<>>)

\* _create_data_loader(dataset_key, shuffle=False) on a dataset of n samples:
\* the batches the loader yields, in order.
create_data_loader(n, batch_size) ==
  BatchSampler(SequentialSampler(n), batch_size, TRUE, <<>>, <<>>)

\* train_plan.torchscript(input, y_hot, batch_size, lr, local_params): the plan
\* is code the client installed.  "sgd" stands for a plan that computes: it
\* returns a loss, an accuracy and as many parameters as it was given, each
\* moved by a gradient that depends on the batch.  "raises" stands for a plan
\* that fails.
TrainStep(train_plan, batch, lr, local_params) ==
  IF train_plan = "sgd"
    THEN [raised |-> NoError,
          loss |-> SumSeq(batch) + SumSeq(local_params),
          acc |-> Len(batch),
          params |-> [i \in DOMAIN local_params |-> local_params[i] - lr * SumSeq(batch)]]
    ELSE [raised |-> "RuntimeError", loss |-> 0, acc |-> 0, params |-> local_params]

\* local_model = global_model and nothing copied.
deepcopy_alias(heap, m) == [handle |-> m, heap |-> heap]

\* copy.deepcopy(global_model): a new model object, "local", whose parameter
\* tensors are equal to those of m and share nothing with them.
deepcopy(heap, m) ==
  [handle |-> "local",
   heap |-> [x \in DOMAIN heap \cup {"local"} |-> IF x = "local" THEN heap[m] ELSE heap[x]]]

\* The loop of fit over the batches of the loader.  The tensors the step
\* works on are those of the model object `local`: what the step returns is
\* written to them, which covers a plan that updates its arguments in place.
RECURSIVE Train(_, _, _, _, _, _)
Train(train_plan, lr, data_loader, batch_idx, local, st) ==
  IF batch_idx > Len(data_loader)
    THEN st
    ELSE LET r == TrainStep(train_plan, data_loader[batch_idx], lr, st.heap[local])
         IN  IF r.raised # NoError
               THEN [st EXCEPT !.raised = r.raised]
               ELSE Train(train_plan, lr, data_loader, batch_idx + 1, local,
                          [raised |-> NoError,
                           heap |-> [st.heap EXCEPT ![local] = r.params],
                           steps |-> Append(st.steps, data_loader[batch_idx]),
                           losses |-> Append(st.losses, r.loss),
                           accuracies |-> Append(st.accuracies, r.acc)])

\* zip truncated at the longer list's excess, operands exchanged.
difference_reversed(local_params, global_params) ==
  [i \in 1..(IF Len(local_params) < Len(global_params)
               THEN Len(local_params) ELSE Len(global_params)) |->
     global_params[i] - local_params[i]]

\* difference = [a-b for a,b in zip(local_params,global_params)]
difference(local_params, global_params) ==
  [i \in 1..(IF Len(local_params) < Len(global_params)
               THEN Len(local_params) ELSE Len(global_params)) |->
     local_params[i] - global_params[i]]

\* register_obj that leaves an id alone once it is taken.
register_obj_keep_first(store, id, obj) ==
  [k \in DOMAIN store \cup {id} |-> IF k \in DOMAIN store THEN store[k] ELSE obj]

\* self.register_obj(obj) of the base worker with obj.id = id: the object
\* store assigns self._objects[obj.id] = obj.
register_obj(store, id, obj) ==
  [k \in DOMAIN store \cup {id} |-> IF k = id THEN obj ELSE store[k]]

\* What fit leaves behind when it raises err before the loop.
Raised(self, err) ==
  [raised |-> err, objects |-> self.objects, params |-> self.params, steps |-> <<>>,
   losses |-> <<>>, accuracies |-> <<>>, local_params |-> <<>>, difference |-> <<>>]

\* fit after the test of dataset_key.  Reading an attribute set_train_config
\* never assigned raises AttributeError: self.plan_id first, then
\* self.batch_size in _create_data_loader, then self.model_id; self.models of
\* a key that is not there raises KeyError.
train_round(self, dataset_key) ==
  IF self.cfg["plan_id"] = Unset THEN Raised(self, "AttributeError")
  ELSE IF self.cfg["batch_size"] = Unset THEN Raised(self, "AttributeError")
  ELSE IF self.cfg["model_id"] = Unset THEN Raised(self, "AttributeError")
  ELSE IF self.models[self.cfg["model_id"]] = Absent THEN Raised(self, "KeyError")
  ELSE
    LET train_plan == self.objects[self.cfg["plan_id"]]
        data_loader == create_data_loader(self.samples[self.datasets[dataset_key]],
                                          Number(self.cfg["batch_size"]))
        global_model == self.models[self.cfg["model_id"]]
        copy == deepcopy(self.params, global_model)
        t == Train(train_plan, Number(self.cfg["lr"]), data_loader, 1, copy.handle,
                   [raised |-> NoError, heap |-> copy.heap, steps |-> <<>>,
                    losses |-> <<>>, accuracies |-> <<>>])
        after == [m \in DOMAIN self.params |-> t.heap[m]]
    IN  IF t.raised # NoError
          THEN [raised |-> t.raised, objects |-> self.objects, params |-> after,
                steps |-> t.steps, losses |-> t.losses, accuracies |-> t.accuracies,
                local_params |-> t.heap[copy.handle], difference |-> <<>>]
          ELSE [raised |-> NoError,
                objects |-> register_obj(self.objects, "loss", t.losses),
                params |-> after,
                steps |-> t.steps, losses |-> t.losses, accuracies |-> t.accuracies,
                local_params |-> t.heap[copy.handle],
                difference |-> difference(t.heap[copy.handle], t.heap[global_model])]

\* fit that takes a dataset key it does not know for an empty dataset.
fit_unknown_as_empty(self, dataset_key) ==
  IF self.datasets[dataset_key] = Absent
    THEN [raised |-> NoError, objects |-> register_obj(self.objects, "loss", <<>>),
          params |-> self.params, steps |-> <<>>, losses |-> <<>>,
          accuracies |-> <<>>, local_params |-> <<>>, difference |-> <<>>]
    ELSE train_round(self, dataset_key)

\* fit(self, dataset_key, epoch, device)
fit(self, dataset_key) ==
  IF self.datasets[dataset_key] = Absent
    THEN Raised(self, "ValueError")
    ELSE train_round(self, dataset_key)

\* A call of fit on the worker object.
CallFit(dataset_key) ==
  LET r == fit(Self, dataset_key)
  IN  /\ objects' = r.objects
      /\ params' = r.params
      /\ round' = [key |-> dataset_key, raised |-> r.raised, steps |-> r.steps,
                   losses |-> r.losses, accuracies |-> r.accuracies,
                   local_params |-> r.local_params, difference |-> r.difference,
                   pre |-> Self]
      /\ UNCHANGED <<datasets, models, train_config, samples, call, pumpVars, wire>>

\* The train configurations a worker can hold: set_train_config assigns in
\* FieldOrder and stops at the first missing argument, so the fields set are
\* a prefix of FieldOrder.
Position(f) == CHOOSE i \in DOMAIN FieldOrder : FieldOrder[i] = f
FullConfigs ==
  [lr : {Numeral(1)}, plan_id : PlanIds, model_id : ModelKeys, model_param_id : {"p"},
   batch_size : {Numeral(n) : n \in 1..MaxBatch},
   max_nr_batches : {Numeral(n) : n \in 1..MaxBatch}]
Configs ==
  {[f \in Fields |-> IF Position(f) <= p THEN cfg[f] ELSE Unset] :
     cfg \in FullConfigs, p \in 0..Len(FieldOrder)}

\* A worker with datasets and models added, plans sent and a configuration
\* set, on which nobody has called fit yet.  Dataset object "v1" may stand
\* under "d1" and "v2" under "d2", and likewise the model objects; both
\* models have the same number of parameter tensors.
InitFit ==
  /\ conn = [c \in Conns |-> "IDLE"]
  /\ peer = [c \in Conns |-> FALSE]
  /\ consumer = [c \in Conns |-> "none"]
  /\ producer = [c \in Conns |-> "none"]
  /\ outbox = [c \in Conns |-> NoResponse]
  /\ broadcast_queue = <<>>
  /\ dispatched = <<>>
  /\ written = <<>>
  /\ nframes = 0
  /\ call = NoCall
  /\ wire = NoWire
  /\ \E a \in {Absent, "v1"}, b \in {Absent, "v2"} :
       datasets = [k \in DatasetKeys |-> IF k = "d1" THEN a ELSE b]
  /\ \E a \in {Absent, "v1"}, b \in {Absent, "v2"} :
       models = [k \in ModelKeys |-> IF k = "m1" THEN a ELSE b]
  /\ train_config \in Configs
  /\ objects = InstalledPlans
  /\ \E k \in 0..MaxParams :
       params = [m \in Values |-> [i \in 1..k |-> IF m = "v1" THEN i ELSE 10 * i]]
  /\ samples \in [Values -> 0..MaxSamples]
  /\ round = NoRound

NextFit == \E dataset_key \in DatasetKeys : CallFit(dataset_key)

SpecFit == InitFit /\ [][NextFit]_vars

\* ------------------------------------------------------ the text framing

\* Text is a sequence of characters, bytes are a sequence of numbers 0..255.
\* The payloads of the wire specification are made of these byte values.
Bytes == {0, 9, 15, 16, 39, 98, 171, 255}
Payloads == UNION {[1..n -> Bytes] : n \in 0..MaxPayload}

HexDigits ==
  <<"0", "1", "2", "3", "4", "5", "6", "7", "8", "9", "a", "b", "c", "d", "e", "f">>
UpperDigits == <<"A", "B", "C", "D", "E", "F">>

\* binascii.hexlify(data): two lower-case hexadecimal digits for each byte.
hexlify(data) ==
  [i \in 1..(2 * Len(data)) |->
     LET byte == data[(i + 1) \div 2]
     IN  IF i % 2 = 1 THEN HexDigits[(byte \div 16) + 1] ELSE HexDigits[(byte % 16) + 1]]

\* str(b): the repr of a bytes object, b'...'.  The bytes here are hexadecimal
\* digits, which repr writes as they are.
str(text) == <<"b", "'">> \o text \o <<"'">>

\* The value of a hexadecimal digit in either case; -1 for any other character.
HexValue(ch) ==
  IF \E i \in DOMAIN HexDigits : HexDigits[i] = ch
    THEN (CHOOSE i \in DOMAIN HexDigits : HexDigits[i] = ch) - 1
  ELSE IF \E i \in DOMAIN UpperDigits : UpperDigits[i] = ch
    THEN (CHOOSE i \in DOMAIN UpperDigits : UpperDigits[i] = ch) + 9
  ELSE -1

\* binascii.unhexlify(text): binascii.Error for an odd number of characters or
\* for a character that is no hexadecimal digit.
a2b_hex(text) ==
  IF Len(text) % 2 = 1 \/ \E i \in DOMAIN text : HexValue(text[i]) = -1
    THEN [raised |-> DecodeError, data |-> <<>>]
    ELSE [raised |-> NoError,
          data |-> [i \in 1..(Len(text) \div 2) |->
                      16 * HexValue(text[2 * i - 1]) + HexValue(text[2 * i])]]

\* _producer_handler: response = str(binascii.hexlify(response))
encode_response(response) == str(hexlify(response))

\* The inbound side unhexlifying the whole frame.
decode_message_unsliced(message) == a2b_hex(message)

\* _producer_handler: message = binascii.unhexlify(message[2:-1])
decode_message(message) == a2b_hex(SubSeq(message, 3, Len(message) - 1))

InitWire ==
  /\ conn = [c \in Conns |-> "IDLE"]
  /\ peer = [c \in Conns |-> FALSE]
  /\ consumer = [c \in Conns |-> "none"]
  /\ producer = [c \in Conns |-> "none"]
  /\ outbox = [c \in Conns |-> NoResponse]
  /\ broadcast_queue = <<>>
  /\ datasets = [k \in DatasetKeys |-> Absent]
  /\ models = [k \in ModelKeys |-> Absent]
  /\ train_config = [f \in Fields |-> Unset]
  /\ dispatched = <<>>
  /\ written = <<>>
  /\ nframes = 0
  /\ call = NoCall
  /\ objects = InstalledPlans
  /\ params = [m \in Values |-> <<>>]
  /\ samples = [d \in Values |-> 0]
  /\ round = NoRound
  /\ \E payload \in Payloads : wire = [NoWire EXCEPT !.stage = "response", !.payload = payload]

\* The outbound encoding of a payload.
WireEncode ==
  /\ wire.stage = "response"
  /\ wire' = [wire EXCEPT !.stage = "sent", !.message = encode_response(wire.payload)]
  /\ UNCHANGED <<datasets, models, train_config, call, pumpVars, trainVars>>

\* The inbound decoding of the frame.
WireDecode ==
  /\ wire.stage = "sent"
  /\ LET r == decode_message(wire.message)
     IN  wire' = [wire EXCEPT !.stage = "received", !.decoded = r.data, !.raised = r.raised]
  /\ UNCHANGED <<datasets, models, train_config, call, pumpVars, trainVars>>

NextWire == WireEncode \/ WireDecode

SpecWire == InitWire /\ [][NextWire]_vars

\* ===================================================================
\* Properties
\* ===================================================================

\* What handling a dispatched request raises, read off the request itself and
\* the registry it met: the exception class, or NoError.
Failure(rec) ==
  IF rec.cmd = NoCommand THEN DecodeError
  ELSE IF rec.cmd.op = "raise" THEN rec.cmd.val
  ELSE IF rec.cmd.op = "add_dataset" /\ rec.pre[rec.cmd.key] # Absent THEN "ValueError"
  ELSE NoError

Fatal(rec) == Failure(rec) \notin Permitted \cup {NoError}

\* Where in `written` the response of request id stands; 0 when it was not written.
WrittenAt(id) ==
  IF \E k \in DOMAIN written : written[k].id = id
    THEN CHOOSE k \in DOMAIN written : written[k].id = id
    ELSE 0

\* C1: the response produced for a request frame received on connection c is
\* written to connection c and to no other connection.
C1_ResponseToOrigin ==
  \A k \in DOMAIN written : written[k].to = written[k].origin

\* C2: for two requests R1, R2 that one connection sent in this order, R1 is
\* dispatched before R2, and once the response for R2 is written the response
\* for R1 (when R1 has one) was written before it, on that connection.
C2_ResponsesInRequestOrder ==
  \A i, j \in DOMAIN dispatched :
    (dispatched[i].origin = dispatched[j].origin /\ dispatched[i].id < dispatched[j].id)
      => /\ i < j
         /\ (~Fatal(dispatched[i]) /\ WrittenAt(dispatched[j].id) # 0)
              => /\ WrittenAt(dispatched[i].id) # 0
                 /\ WrittenAt(dispatched[i].id) < WrittenAt(dispatched[j].id)
                 /\ written[WrittenAt(dispatched[i].id)].to = dispatched[i].origin

\* C3: when a request sent on connection c triggers a fatal failure, the
\* connection whose pump is terminated by it is c, and no other.
C3_FatalTerminatesSender ==
  \A i \in DOMAIN dispatched :
    Fatal(dispatched[i]) =>
      \A c \in Conns :
        (producer[c] = "raised" /\ dispatched[i].by = c) => c = dispatched[i].origin

\* The dispatch that was appended to `dispatched` by this step, if any.
Dispatching == Len(dispatched') = Len(dispatched) + 1
Latest == dispatched'[Len(dispatched')]

\* The state part of C4.
C4_Safety ==
  \A i \in DOMAIN dispatched :
    Fatal(dispatched[i]) =>
      LET c == dispatched[i].by
      IN  /\ dispatched[i].raised = Failure(dispatched[i])
          /\ WrittenAt(dispatched[i].id) = 0
          /\ \A b \in Conns : outbox[b].id # dispatched[i].id
          /\ producer[c] = "raised"
          /\ conn[c] \in {"ACTIVE", "CLOSED"}
          /\ conn[c] = "CLOSED" => consumer[c] \in {"cancelled", "done"}

\* C4: when dispatching a request raises a failure outside the permitted
\* classes, the failure leaves the processing task, no response frame is ever
\* written for that request, and the pump of the connection whose processing
\* task dispatched it goes to CLOSED, its receive task no longer running.
C4_FatalNoResponseAndClosed ==
  /\ []C4_Safety
  /\ \A c \in Conns : (producer[c] = "raised") ~> (conn[c] = "CLOSED")

\* A fatal request was dispatched and the pump that dispatched it is CLOSED,
\* its receive task cancelled.
C4_Witness ==
  \E i \in DOMAIN dispatched :
    /\ Fatal(dispatched[i])
    /\ conn[dispatched[i].by] = "CLOSED"
    /\ consumer[dispatched[i].by] = "cancelled"

\* The state part of C5; C5_Step is its step part.
C5_Safety ==
  \A i \in DOMAIN dispatched :
    Failure(dispatched[i]) \in Permitted =>
      /\ dispatched[i].raised = NoError
      /\ dispatched[i].payload = Failure(dispatched[i])
      /\ \A k \in DOMAIN written :
           written[k].id = dispatched[i].id
             => /\ written[k].to = dispatched[i].by
                /\ written[k].payload = Failure(dispatched[i])

\* The step that dispatches a permitted failure, and the step that writes it.
C5_Step ==
  /\ (Dispatching /\ Failure(Latest) \in Permitted)
       => /\ conn'[Latest.by] = "ACTIVE"
          /\ producer'[Latest.by] = "send"
          /\ outbox'[Latest.by] =
               [id |-> Latest.id, origin |-> Latest.origin, payload |-> Failure(Latest)]
  /\ (Len(written') = Len(written) + 1 /\ written'[Len(written')].payload \in Permitted)
       => /\ conn'[written'[Len(written')].to] = "ACTIVE"
          /\ producer'[written'[Len(written')].to] = "get"

\* C5: when dispatching a request raises one of the two permitted classes, the
\* failure is serialized into the response of that request, the processing
\* task goes on to send it and the connection stays ACTIVE; once it is written
\* (to the connection of that processing task, carrying the failure) the task
\* is back at the queue, ready for the requests that follow.
C5_PermittedFailureAnswered == []C5_Safety /\ [][C5_Step]_vars

\* A permitted failure was written as a response, and the same processing task
\* then dispatched and answered the next request.
C5_Witness ==
  /\ Len(dispatched) = 2
  /\ Len(written) = 2
  /\ Failure(dispatched[1]) \in Permitted
  /\ dispatched[2].by = dispatched[1].by
  /\ written[1].id = dispatched[1].id
  /\ written[1].payload = Failure(dispatched[1])
  /\ written[2].id = dispatched[2].id
  /\ written[2].to = dispatched[1].by
  /\ conn[dispatched[1].by] = "ACTIVE"

\* What C6 says of one step.
C6_Step ==
  call'.op = "set_train_config" =>
    IF \E f \in Fields : call'.kwargs[f] = Missing
      THEN /\ call'.raised = "KeyError"
           /\ train_config' = train_config
      ELSE /\ call'.raised = NoError
           /\ train_config' = call'.kwargs

\* C6: set_train_config is all-or-nothing: with any of the six fields missing
\* from the call it fails and every field keeps its value; with all six
\* supplied, all six are overwritten.
C6_AllOrNothing == [][C6_Step]_vars

\* The state part of C7; C7_Step is its step part.
C7_Safety ==
  \A c \in Conns :
    conn[c] = "CLOSED" =>
      /\ consumer[c] \in {"done", "cancelled"}
      /\ producer[c] \in {"raised", "send_raised", "cancelled"}
      /\ Ended(c)

\* The step that closes a pump, and every step taken while it is CLOSED.
C7_Step ==
  \A c \in Conns :
    /\ (conn[c] = "ACTIVE" /\ conn'[c] = "CLOSED") => Ended(c)
    /\ conn[c] = "CLOSED" =>
         /\ conn'[c] = "CLOSED"
         /\ consumer'[c] = consumer[c]
         /\ producer'[c] = producer[c]
         /\ outbox'[c] = outbox[c]
         /\ nframes' # nframes => broadcast_queue'[Len(broadcast_queue')].origin # c
         /\ Dispatching => Latest.by # c
         /\ Len(written') # Len(written) => written'[Len(written')].to # c

\* C7: whenever the receive task or the processing task of a connection has
\* ended, the pump of that connection reaches CLOSED; a pump goes to CLOSED
\* only then; in CLOSED neither task is running (the one that had not ended
\* was cancelled) and neither takes a further step: no frame of that
\* connection is queued, no request is dispatched by it, nothing is written
\* to it.
C7_PumpEndsWithEitherTask ==
  /\ []C7_Safety
  /\ [][C7_Step]_vars
  /\ \A c \in Conns : Ended(c) ~> (conn[c] = "CLOSED")

\* The receive task ended, the processing task was cancelled while a request
\* was still queued, and another pump is still ACTIVE.
C7_Witness ==
  \E c \in Conns :
    /\ conn[c] = "CLOSED"
    /\ consumer[c] = "done"
    /\ producer[c] = "cancelled"
    /\ broadcast_queue # <<>>
    /\ \E b \in Conns : conn[b] = "ACTIVE"

\* What C8 says of one step.
C8_Step ==
  /\ call'.op = "add_dataset" =>
       /\ models' = models
       /\ train_config' = train_config
       /\ IF datasets[call'.key] = Absent
            THEN /\ call'.raised = NoError
                 /\ datasets' = [datasets EXCEPT ![call'.key] = call'.val]
            ELSE /\ call'.raised = "ValueError"
                 /\ datasets' = datasets
  /\ call'.op = "add_model" =>
       /\ datasets' = datasets
       /\ train_config' = train_config
       /\ IF models[call'.key] = Absent
            THEN /\ call'.raised = NoError
                 /\ models' = [models EXCEPT ![call'.key] = call'.val]
            ELSE /\ call'.raised = "ValueError"
                 /\ models' = models

\* C8: add_dataset(k, v) and add_model(k, v) store v under an absent k; under a
\* present k they raise the duplicate-key error (ValueError) and leave that
\* entry, every other entry of the registry and the other registries as they
\* were.
C8_UniqueInsert == [][C8_Step]_vars

\* A duplicate add_dataset was rejected: another value stays stored under the
\* key, beside other entries in both registries.
C8_Witness ==
  /\ call.op = "add_dataset"
  /\ call.raised = "ValueError"
  /\ datasets[call.key] \notin {Absent, call.val}
  /\ \E k \in DatasetKeys \ {call.key} : datasets[k] # Absent
  /\ \E k \in ModelKeys : models[k] # Absent

\* C9: two add-dataset requests of different connections for the same key,
\* absent when the first is dispatched and not removed in between: the first
\* succeeds, the other raises the duplicate-key error, and after either the
\* registry holds the first one's value under that key.
After(n) == IF n < Len(dispatched) THEN dispatched[n + 1].pre ELSE datasets

C9_ConcurrentAddDataset ==
  \A i, j \in DOMAIN dispatched :
    ( /\ i < j
      /\ dispatched[i].cmd.op = "add_dataset"
      /\ dispatched[j].cmd.op = "add_dataset"
      /\ dispatched[i].cmd.key = dispatched[j].cmd.key
      /\ dispatched[i].origin # dispatched[j].origin
      /\ dispatched[i].pre[dispatched[i].cmd.key] = Absent
      /\ \A m \in (i + 1)..(j - 1) :
           ~(dispatched[m].cmd.op = "remove_dataset"
             /\ dispatched[m].cmd.key = dispatched[i].cmd.key) )
    => /\ dispatched[i].raised = NoError
       /\ dispatched[j].raised = "ValueError"
       /\ After(i)[dispatched[i].cmd.key] = dispatched[i].cmd.val
       /\ After(j)[dispatched[i].cmd.key] = dispatched[i].cmd.val
       /\ \A k \in DatasetKeys \ {dispatched[i].cmd.key} :
            After(j)[k] = dispatched[i].pre[k]

\* Both requests were queued together (the second was waiting when the first
\* was dispatched), carried different datasets and were both dispatched.
C9_Witness ==
  /\ Len(dispatched) = 2
  /\ dispatched[1].cmd.op = "add_dataset"
  /\ dispatched[2].cmd.op = "add_dataset"
  /\ dispatched[1].cmd.key = dispatched[2].cmd.key
  /\ dispatched[1].cmd.val # dispatched[2].cmd.val
  /\ dispatched[1].origin # dispatched[2].origin
  /\ dispatched[1].waiting = 1
  /\ dispatched[1].raised = NoError
  /\ dispatched[2].raised = "ValueError"
  /\ datasets[dispatched[1].cmd.key] = dispatched[1].cmd.val

\* What C10 says of one step.
C10_Step ==
  /\ call'.op = "remove_dataset" =>
       /\ call'.raised = NoError
       /\ datasets'[call'.key] = Absent
       /\ \A k \in DatasetKeys \ {call'.key} : datasets'[k] = datasets[k]
       /\ datasets[call'.key] = Absent => datasets' = datasets
       /\ remove_dataset(datasets', call'.key) = [raised |-> NoError, reg |-> datasets']
       /\ models' = models
       /\ train_config' = train_config
  /\ call'.op = "remove_model" =>
       /\ call'.raised = NoError
       /\ models'[call'.key] = Absent
       /\ \A k \in ModelKeys \ {call'.key} : models'[k] = models[k]
       /\ models[call'.key] = Absent => models' = models
       /\ remove_model(models', call'.key) = [raised |-> NoError, reg |-> models']
       /\ datasets' = datasets
       /\ train_config' = train_config

\* C10: remove_dataset(k) and remove_model(k) never raise; afterwards k is
\* absent and every other key, and the other registries, are as before; with
\* k absent nothing changes, so that a second call leaves the registry as the
\* first left it.
C10_RemoveIdempotent == [][C10_Step]_vars

\* remove_model was called, its key is absent and the other model is kept.
C10_Witness ==
  /\ call.op = "remove_model"
  /\ call.raised = NoError
  /\ models[call.key] = Absent
  /\ \E k \in ModelKeys \ {call.key} : models[k] # Absent
  /\ \E k \in DatasetKeys : datasets[k] # Absent

\* ------------------------------------------------------- the training round

\* The last call of fit returned / raised.
FitReturned == round.key # "-" /\ round.raised = NoError
FitRaised == round.key # "-" /\ round.raised # NoError

\* len(dataset) and batch_size as the last call of fit met them.
RoundN == round.pre.samples[round.pre.datasets[round.key]]
RoundB == Number(round.pre.cfg["batch_size"])

\* C11: for a dataset of N samples and a batch size B >= 1, a fit that returns
\* has invoked the training step exactly floor(N / B) times, on the batches of
\* B consecutive samples in dataset order (the last N mod B samples dropped),
\* and the loss and the accuracy sequence each hold floor(N / B) elements.
C11_BatchCount ==
  FitReturned =>
    /\ Len(round.steps) = RoundN \div RoundB
    /\ Len(round.losses) = RoundN \div RoundB
    /\ Len(round.accuracies) = RoundN \div RoundB
    /\ \A b \in DOMAIN round.steps :
         round.steps[b] = [j \in 1..RoundB |-> (b - 1) * RoundB + j]

\* A fit returned on a dataset whose size is no multiple of the batch size,
\* after more than one batch.
C11_Witness ==
  /\ FitReturned
  /\ RoundN % RoundB # 0
  /\ Len(round.steps) >= 2

\* The model object fit trains from, as the last call of fit met it.
RoundModel == round.pre.models[round.pre.cfg["model_id"]]

\* C12: after fit has returned or raised, the parameters of every model
\* object, the global model among them, are what they were before the call;
\* the dataset registry, the model registry and the train configuration are
\* unchanged; and in the object store nothing but the entry "loss" differs.
C12_FitIsolated ==
  round.key # "-" =>
    /\ params = round.pre.params
    /\ datasets = round.pre.datasets
    /\ models = round.pre.models
    /\ train_config = round.pre.cfg
    /\ DOMAIN objects \subseteq DOMAIN round.pre.objects \cup {"loss"}
    /\ \A id \in DOMAIN round.pre.objects \ {"loss"} :
         id \in DOMAIN objects /\ objects[id] = round.pre.objects[id]

\* A fit returned after training steps that moved the local parameters away
\* from those of the global model, and registered its first loss.
C12_Witness ==
  /\ FitReturned
  /\ Len(round.steps) >= 1
  /\ round.local_params # params[RoundModel]
  /\ "loss" \in DOMAIN objects
  /\ "loss" \notin DOMAIN round.pre.objects

\* C13: the delta a returned fit computes has as many elements as the global
\* model has parameters, element i is local parameter i after the last batch
\* minus global parameter i as it was before the round, and after a round of
\* zero batches every element is zero.
C13_Delta ==
  FitReturned =>
    /\ Len(round.difference) = Len(round.pre.params[RoundModel])
    /\ \A i \in DOMAIN round.difference :
         round.difference[i] = round.local_params[i] - round.pre.params[RoundModel][i]
    /\ round.steps = <<>> => \A i \in DOMAIN round.difference : round.difference[i] = 0

\* A fit returned with a delta of the largest length and no element zero.
C13_Witness ==
  /\ FitReturned
  /\ Len(round.difference) = MaxParams
  /\ \A i \in DOMAIN round.difference : round.difference[i] # 0

\* C14: a fit called with a dataset key that is not registered, or on a worker
\* whose train configuration was never set, raises, and it has executed no
\* batch, registered no loss, and left the dataset registry, the model
\* registry, the model parameters, the object store and the train
\* configuration as they were.
C14_FailFast ==
  (/\ round.key # "-"
   /\ \/ round.pre.datasets[round.key] = Absent
      \/ \A f \in Fields : round.pre.cfg[f] = Unset)
  => /\ round.raised # NoError
     /\ round.steps = <<>>
     /\ round.losses = <<>>
     /\ objects = round.pre.objects
     /\ datasets = round.pre.datasets
     /\ models = round.pre.models
     /\ params = round.pre.params
     /\ train_config = round.pre.cfg

\* A fit raised on a key that is not registered although the configuration is
\* complete and the other dataset has batches to train on.
C14_Witness ==
  /\ FitRaised
  /\ round.pre.datasets[round.key] = Absent
  /\ \A f \in Fields : round.pre.cfg[f] # Unset
  /\ \E k \in DatasetKeys :
       /\ datasets[k] # Absent
       /\ samples[datasets[k]] >= Number(train_config["batch_size"])

\* ------------------------------------------------------ the text framing

\* C15: a payload put through the outbound encoding (the text form of its
\* hexlified bytes) and then through the inbound decoding (unhexlify of the
\* frame without its first two characters and its last one) comes back as
\* exactly the bytes it was, and the decoding raises nothing.
C15_RoundTrip ==
  wire.stage = "received" => wire.raised = NoError /\ wire.decoded = wire.payload

\* A payload of the largest length, of two different bytes, came back.
C15_Witness ==
  /\ wire.stage = "received"
  /\ Len(wire.payload) = MaxPayload
  /\ wire.payload[1] # wire.payload[MaxPayload]
  /\ Len(wire.message) = 2 * MaxPayload + 3

C18_BatchCap ==
  (FitReturned /\ round.pre.cfg["max_nr_batches"] # Unset)
    => Len(round.steps) <= Number(round.pre.cfg["max_nr_batches"])

\* ---------------------------------------------------- the pumps, continued

\* C16: the connection-closed signal does not end the receive task, which
\* goes on receiving, and so the signal alone never makes the pump cancel the
\* processing task and reach CLOSED: a pump is CLOSED only after its
\* processing task has ended by itself.
C16_ReceiveTaskRestarts ==
  \A c \in Conns :
    /\ consumer[c] # "done"
    /\ conn[c] = "CLOSED" => producer[c] \in {"raised", "send_raised"}

\* C19: no request frame is dispatched once the pump of the connection it was
\* received on is CLOSED: after that none of the connection's requests
\* reaches _recv_msg, changes a registry or gets a response.
C19_Step == Dispatching => conn[Latest.origin] # "CLOSED"
C19_NoDispatchAfterClose == [][C19_Step]_vars

\* The connection has both its tasks running and its remote end open.
Alive(c) == conn[c] = "ACTIVE" /\ peer[c] /\ ~Ended(c)

\* Nothing is queued and no processing task holds a response it has yet to send.
Quiescent == broadcast_queue = <<>> /\ \A c \in Conns : producer[c] # "send"

\* C20: when every received frame has been worked off, each request of a
\* connection that is still alive whose handling succeeded or raised a
\* permitted failure was dispatched exactly once and has exactly one
\* response, written on the connection it was received on.
C20_OneResponseOnOrigin ==
  Quiescent =>
    \A i \in DOMAIN dispatched :
      (Alive(dispatched[i].origin) /\ ~Fatal(dispatched[i])) =>
        /\ \A j \in DOMAIN dispatched : dispatched[j].id = dispatched[i].id => j = i
        /\ Cardinality({k \in DOMAIN written : written[k].id = dispatched[i].id}) = 1
        /\ \A k \in DOMAIN written :
             written[k].id = dispatched[i].id => written[k].to = dispatched[i].origin


====
